---- MODULE Spec2Model ----
(***************************************************************************)
(* Model of app.py (keyword / brand analytics, Streamlit).                 *)
(*                                                                         *)
(* Text is modelled as a sequence of one-character strings, a table as a   *)
(* record [columns, rows], Python's None as the record None.  The columns  *)
(* 关键词, 月搜索量, 品牌名称, 品牌, 词性, 特性参数 and 时间 are written   *)
(* keyword, volume, brand_name (name in a brand sheet), brand, word_type,  *)
(* feature and time.  Search volumes are integers, so sums and the         *)
(* cumulative share (kept as numerator and denominator) are exact; keyword *)
(* and brand cells are text or empty.                                      *)
(***************************************************************************)
EXTENDS Integers, Sequences, FiniteSets, TLC

VARIABLES
    product_data,     \* st.session_state.product_data
    brand_file,       \* the file held by the brand file_uploader
    brand_data,       \* st.session_state.brand_data
    custom_rules,     \* st.session_state.custom_rules
    matched_results,  \* st.session_state.matched_results
    processed_data,   \* tab1: the value process_product_data returned
    last_action,      \* the interaction that started the last script run
    ui,               \* the messages the last script run displayed
    asin_input,       \* tab4: the text of the ASIN text area
    asin_results,     \* st.session_state.asin_results
    uploaded_zips,    \* tab5: the files held by the zip uploader
    tab5,             \* tab5: all_data, error_files and merged_df of the run
    uploaded_files,   \* tab6: the files held by the file uploader
    tab6              \* tab6: all_data, error_files and merged_df of the run

vars == <<product_data, brand_file, brand_data, custom_rules, matched_results,
          processed_data, last_action, ui, asin_input, asin_results,
          uploaded_zips, tab5, uploaded_files, tab6>>

session_vars == <<brand_file, brand_data, custom_rules, matched_results>>
keyword_vars == <<product_data, session_vars, processed_data>>
tool_vars == <<asin_input, asin_results, uploaded_zips, tab5, uploaded_files, tab6>>

None == [none |-> TRUE]
NotRun == [notrun |-> TRUE]

\* tabs 4 to 6 before anything was entered or uploaded
ToolsIdle ==
    /\ asin_input = <<>>
    /\ asin_results = None
    /\ uploaded_zips = <<>>
    /\ tab5 = NotRun
    /\ uploaded_files = <<>>
    /\ tab6 = NotRun

RECURSIVE SeqSum(_)
SeqSum(s) == IF s = <<>> THEN 0 ELSE s[1] + SeqSum(Tail(s))

(***************************************************************************)
(* Text                                                                    *)
(***************************************************************************)

UpperCase == <<"A", "B", "C", "D", "E", "F", "G", "H", "I", "J", "K", "L", "M",
               "N", "O", "P", "Q", "R", "S", "T", "U", "V", "W", "X", "Y", "Z">>
LowerCase == <<"a", "b", "c", "d", "e", "f", "g", "h", "i", "j", "k", "l", "m",
               "n", "o", "p", "q", "r", "s", "t", "u", "v", "w", "x", "y", "z">>
Digits == {"0", "1", "2", "3", "4", "5", "6", "7", "8", "9"}
Whitespace == {" ", "\t", "\n"}

Range(f) == {f[i] : i \in DOMAIN f}

WordChars == Range(UpperCase) \cup Range(LowerCase) \cup Digits \cup {"_"}

\* the regular expression class \w
IsWordChar(c) == c \in WordChars

ToLower == [c \in Range(UpperCase) |->
                LowerCase[CHOOSE i \in DOMAIN UpperCase : UpperCase[i] = c]]
ToUpper == [c \in Range(LowerCase) |->
                UpperCase[CHOOSE i \in DOMAIN LowerCase : LowerCase[i] = c]]

lower_char(c) == IF c \in DOMAIN ToLower THEN ToLower[c] ELSE c

upper_char(c) == IF c \in DOMAIN ToUpper THEN ToUpper[c] ELSE c

\* str.lower()
lower(s) == [i \in 1..Len(s) |-> lower_char(s[i])]

\* str.upper()
upper(s) == [i \in 1..Len(s) |-> upper_char(s[i])]

RECURSIVE lstrip(_)
lstrip(s) == IF s # <<>> /\ s[1] \in Whitespace THEN lstrip(Tail(s)) ELSE s

RECURSIVE rstrip(_)
rstrip(s) ==
    IF s # <<>> /\ s[Len(s)] \in Whitespace THEN rstrip(SubSeq(s, 1, Len(s) - 1)) ELSE s

\* str.strip()
strip(s) == rstrip(lstrip(s))

\* str.split(sep) for a one-character sep: the pieces between the separators,
\* empty pieces included
RECURSIVE split(_, _)
split(s, sep) ==
    IF \A i \in 1..Len(s) : s[i] # sep THEN <<s>>
    ELSE LET p == CHOOSE i \in 1..Len(s) :
                    s[i] = sep /\ \A j \in 1..i - 1 : s[j] # sep
         IN  <<SubSeq(s, 1, p - 1)>> \o split(SubSeq(s, p + 1, Len(s)), sep)

\* An optional text value: None or a str
NoneCell == [k |-> "none", s |-> <<>>]
Txt(s) == [k |-> "text", s |-> s]

\* Python truth of an optional text: None and '' are false
Truthy(c) == c.k = "text" /\ c.s # <<>>

(***************************************************************************)
(* Ranking: process_product_data                                           *)
(***************************************************************************)

\* Bounds of the ranking inputs
MaxRankRows == 3
MaxVol == 2

\* A spreadsheet cell of the volume column: a number, a text or an empty cell
Num(n) == [k |-> "num", n |-> n]
NaN == [k |-> "nan", n |-> 0]
TextCell == [k |-> "text", n |-> 0]

RankKeywords == {<<"k", "1">>, <<"k", "2">>}
RankCells == {Num(n) : n \in -1..MaxVol} \cup {NaN, TextCell}
RankRow == [keyword : RankKeywords, volume : RankCells]

RECURSIVE SeqsUpTo(_, _)
SeqsUpTo(S, n) ==
    IF n = 0 THEN {<<>>}
    ELSE LET shorter == SeqsUpTo(S, n - 1)
         IN  shorter \cup {Append(s, x) : s \in {t \in shorter : Len(t) = n - 1}, x \in S}

RankTables ==
    {[columns |-> {"keyword", "volume"}, rows |-> r] : r \in SeqsUpTo(RankRow, MaxRankRows)}

\* pd.to_numeric(errors='coerce'): what is not a number becomes NaN
to_numeric(c) == IF c.k = "num" THEN c ELSE NaN

\* dropna(subset=['月搜索量'])
dropna_volume(rows) == SelectSeq(rows, LAMBDA r : r.volume.k # "nan")

PositiveVolumeBug(rows) == SelectSeq(rows, LAMBDA r : r.volume.n >= 0)

\* df_clean[df_clean['月搜索量'] > 0]
PositiveVolume(rows) == SelectSeq(rows, LAMBDA r : r.volume.n > 0)

IndexPerms(n) == {f \in [1..n -> 1..n] : \A i, j \in 1..n : i # j => f[i] # f[j]}

\* sort_values('月搜索量', ascending=False): the default kind is 'quicksort',
\* which is not a stable sort, so rows of equal volume come out in any order.
sort_values_desc(rows) ==
    {s \in {[i \in 1..Len(rows) |-> rows[f[i]]] : f \in IndexPerms(Len(rows))} :
        \A i \in 1..Len(s) - 1 : s[i].volume.n >= s[i + 1].volume.n}

\* cumsum() of the volume column
cumsum(rows) == [i \in 1..Len(rows) |-> SeqSum([j \in 1..i |-> rows[j].volume.n])]

\* sum() of the volume column
volume_sum(rows) == SeqSum([j \in 1..Len(rows) |-> rows[j].volume.n])

\* Rank, 月搜索量累计和 and 月搜索量累计占比 (the quotient kept as num / den)
AddRankColumns(sorted) ==
    [i \in 1..Len(sorted) |->
        [keyword |-> sorted[i].keyword,
         volume |-> sorted[i].volume.n,
         Rank |-> i,
         cum_volume |-> cumsum(sorted)[i],
         cum_share |-> [num |-> cumsum(sorted)[i], den |-> volume_sum(sorted)]]]

CleanRows(df) ==
    PositiveVolume(dropna_volume(
        [i \in 1..Len(df.rows) |->
            [df.rows[i] EXCEPT !.volume = to_numeric(df.rows[i].volume)]]))

\* The set of values process_product_data may return for df
process_product_data(df) ==
    IF ~({"keyword", "volume"} \subseteq df.columns) THEN {None}
    ELSE IF CleanRows(df) = <<>> THEN {None}
    ELSE {[columns |-> df.columns \cup {"Rank", "cum_volume", "cum_share"},
           rows |-> AddRankColumns(s)] : s \in sort_values_desc(CleanRows(df))}

\* tab1 of one script run
Tab1 ==
    /\ IF product_data # None
       THEN \E out \in process_product_data(product_data) :
               /\ processed_data' = out
               /\ ui' = IF out = None THEN <<"error_processing">> ELSE <<"table">>
       ELSE /\ processed_data' = None
            /\ ui' = <<"info_upload_first">>
    /\ last_action' = "tab1"
    /\ UNCHANGED <<product_data, session_vars, tool_vars>>

InitRank ==
    /\ product_data \in RankTables
    /\ processed_data = NotRun
    /\ brand_file = None
    /\ brand_data = None
    /\ custom_rules = <<>>
    /\ matched_results = None
    /\ last_action = "start"
    /\ ui = <<>>
    /\ ToolsIdle

NextRank == Tab1

SpecRank == InitRank /\ [][NextRank]_vars

\* The input rows whose volume is a positive number, in input order
ValidInput(df) ==
    SelectSeq(df.rows, LAMBDA r : r.volume.k = "num" /\ r.volume.n > 0)

Ranked == processed_data # NotRun /\ processed_data # None

\* C1: for an input with at least one row of positive numeric volume the
\* result is a table of N rows (N the number of such rows) whose Rank is
\* 1..N in row order, whose volumes do not increase, whose cumulative share
\* does not decrease and lies in (0,1], and whose last cumulative volume is
\* the total volume (last share = 1).
RankContract ==
    (processed_data # NotRun /\ ValidInput(product_data) # <<>>) =>
    /\ processed_data # None
    /\ LET out == processed_data.rows
           N == Len(out)
       IN  /\ N = Len(ValidInput(product_data))
           /\ \A i \in 1..N :
                 /\ out[i].Rank = i
                 /\ out[i].cum_share.num > 0
                 /\ out[i].cum_share.num <= out[i].cum_share.den
                 /\ out[i].cum_share.den > 0
           /\ \A i \in 1..N - 1 :
                 /\ out[i].volume >= out[i + 1].volume
                 /\ out[i].cum_share.num * out[i + 1].cum_share.den
                      <= out[i + 1].cum_share.num * out[i].cum_share.den
           /\ out[N].cum_share.num = out[N].cum_share.den
           /\ out[N].cum_volume
                = SeqSum([j \in 1..N |-> ValidInput(product_data)[j].volume.n])

\* C1 witness: three rows ranked, two of them of equal volume
RankWitness ==
    /\ Ranked
    /\ Len(processed_data.rows) = 3
    /\ processed_data.rows[1].volume > processed_data.rows[2].volume
    /\ processed_data.rows[2].volume = processed_data.rows[3].volume
    /\ Len(product_data.rows) = 3

\* The stable descending order of rows: position i before j when its volume
\* is larger, or equal with i earlier in the input
StableDesc(rows) ==
    CHOOSE s \in {[i \in 1..Len(rows) |-> rows[f[i]]] : f \in
                    {g \in IndexPerms(Len(rows)) :
                        \A i, j \in 1..Len(rows) :
                            i < j => \/ rows[g[i]].volume.n > rows[g[j]].volume.n
                                     \/ /\ rows[g[i]].volume.n = rows[g[j]].volume.n
                                        /\ g[i] < g[j]}} : TRUE

\* C2: rows of equal volume keep the relative order of the input
RankStable ==
    Ranked =>
        LET st == StableDesc(ValidInput(product_data))
        IN  \A i \in 1..Len(st) : processed_data.rows[i].keyword = st[i].keyword

(***************************************************************************)
(* Brand matching: match_brands                                            *)
(***************************************************************************)

\* re.search(r'(?<!\w)' + re.escape(term) + r'(?!\w)', text, re.IGNORECASE)
re_search_substring(term, text) ==
    \E p \in 1..Len(text) - Len(term) + 1 :
        lower(SubSeq(text, p, p + Len(term) - 1)) = lower(term)

re_search_word(term, text) ==
    \E p \in 1..Len(text) - Len(term) + 1 :
        /\ lower(SubSeq(text, p, p + Len(term) - 1)) = lower(term)
        /\ p = 1 \/ ~IsWordChar(text[p - 1])
        /\ p + Len(term) - 1 = Len(text) \/ ~IsWordChar(text[p + Len(term)])

\* [kw.strip().lower() for kw in str(row['匹配关键词']).split(',') if kw.strip()]
rule_keywords(text) ==
    LET pieces == split(text, ",")
        kept == SelectSeq(pieces, LAMBDA kw : strip(kw) # <<>>)
    IN  [i \in 1..Len(kept) |-> lower(strip(kept[i]))]

dict_set_append(map, key, value) == Append(map, [term |-> key, brand |-> value])

\* manual_map[kw] = brand_name on an insertion-ordered dict: a new key goes to
\* the end, a key already present keeps its place and takes the new value
dict_set(map, key, value) ==
    IF \E i \in 1..Len(map) : map[i].term = key
    THEN [i \in 1..Len(map) |->
            IF map[i].term = key THEN [term |-> key, brand |-> value] ELSE map[i]]
    ELSE Append(map, [term |-> key, brand |-> value])

RECURSIVE add_keywords(_, _, _)
add_keywords(map, kws, brand_name) ==
    IF kws = <<>> THEN map
    ELSE add_keywords(dict_set(map, kws[1], brand_name), Tail(kws), brand_name)

RECURSIVE build_manual_map(_, _)
build_manual_map(map, rules) ==
    IF rules = <<>> THEN map
    ELSE build_manual_map(
            add_keywords(map, rule_keywords(rules[1].keywords), rules[1].brand),
            Tail(rules))

\* the manual rule loop: the first entry of manual_map found in the keyword
RECURSIVE manual_pass(_, _)
manual_pass(map, keyword_lower) ==
    IF map = <<>> THEN [brand |-> NoneCell, term |-> NoneCell]
    ELSE IF map[1].term # <<>> /\ re_search_word(map[1].term, keyword_lower)
         THEN [brand |-> Txt(map[1].brand), term |-> Txt(map[1].term)]
         ELSE manual_pass(Tail(map), keyword_lower)

\* brand_df[brand_df['品牌名称'].str.lower() == brand]['品牌名称'].iloc[0]
original_brand(brand_rows, brand) ==
    brand_rows[CHOOSE i \in 1..Len(brand_rows) :
                  /\ lower(brand_rows[i].name.s) = brand
                  /\ \A j \in 1..i - 1 : lower(brand_rows[j].name.s) # brand].name.s

\* the brand list loop: the first brand of brand_list found in the keyword
RECURSIVE brand_pass(_, _, _)
brand_pass(brand_list, brand_rows, keyword_lower) ==
    IF brand_list = <<>> THEN [brand |-> NoneCell, term |-> NoneCell]
    ELSE IF brand_list[1] # <<>> /\ re_search_word(brand_list[1], keyword_lower)
         THEN [brand |-> Txt(original_brand(brand_rows, brand_list[1])),
               term |-> Txt(brand_list[1])]
         ELSE brand_pass(Tail(brand_list), brand_rows, keyword_lower)

always_brand_pass(manual) == TRUE

\* if not matched_brand: the brand list is consulted
needs_brand_pass(manual) == ~Truthy(manual.brand)

\* one row of result_df
match_row(row, manual_map, brand_list, brand_rows) ==
    LET keyword_lower == lower(row.keyword)
        manual == manual_pass(manual_map, keyword_lower)
        found == IF needs_brand_pass(manual)
                 THEN brand_pass(brand_list, brand_rows, keyword_lower)
                 ELSE manual
    IN  IF Truthy(found.brand)
        THEN [keyword |-> row.keyword, volume |-> row.volume,
              brand_name |-> found.brand, brand |-> found.term,
              word_type |-> "Branded KWs", feature |-> NoneCell]
        ELSE [keyword |-> row.keyword, volume |-> row.volume,
              brand_name |-> NoneCell, brand |-> NoneCell,
              word_type |-> "Non-Branded KWs", feature |-> NoneCell]

\* match_brands: the messages it displays and the value it returns
match_brands(product_df, brand_df, custom_rules_df) ==
    IF product_df = None \/ product_df.rows = <<>>
    THEN [msgs |-> <<"error_product_empty">>, value |-> None]
    ELSE IF brand_df = None \/ brand_df.rows = <<>>
    THEN [msgs |-> <<"error_brand_empty">>, value |-> None]
    ELSE LET brand_list == [i \in 1..Len(brand_df.rows) |-> lower(brand_df.rows[i].name.s)]
             manual_map == build_manual_map(<<>>, custom_rules_df)
         IN  [msgs |-> <<>>,
              value |->
                [columns |-> {"keyword", "volume", "brand_name", "brand",
                              "word_type", "feature"},
                 rows |-> [i \in 1..Len(product_df.rows) |->
                             match_row(product_df.rows[i], manual_map, brand_list,
                                       brand_df.rows)]]]

\* tab3, the run-match button
RunMatch ==
    /\ IF product_data # None /\ brand_data # None
       THEN LET r == match_brands(product_data, brand_data, custom_rules)
            IN  /\ matched_results' = r.value
                /\ ui' = r.msgs \o <<"success_match_done">>
       ELSE /\ ui' = <<"error_upload_first">>
            /\ UNCHANGED matched_results
    /\ last_action' = "run_match"
    /\ UNCHANGED <<product_data, brand_file, brand_data, custom_rules, processed_data, tool_vars>>

(***************************************************************************)
(* Sidebar: file uploads and manual rules                                  *)
(***************************************************************************)

\* An empty spreadsheet cell of a text column
NaNName == [k |-> "nan", s |-> <<>>]

Unreadable == [kind |-> "unreadable", columns |-> {}, rows |-> <<>>]
Sheet(columns, rows) == [kind |-> "table", columns |-> columns, rows |-> rows]

\* dropna(subset=['品牌名称'])
dropna_name(rows) == SelectSeq(rows, LAMBDA r : r.name.k # "nan")

RECURSIVE drop_duplicates_last(_)
drop_duplicates_last(rows) ==
    IF rows = <<>> THEN <<>>
    ELSE IF \E j \in 2..Len(rows) : rows[j].name = rows[1].name
         THEN drop_duplicates_last(Tail(rows))
         ELSE <<rows[1]>> \o drop_duplicates_last(Tail(rows))

\* drop_duplicates(subset=['品牌名称']): a row is dropped when an earlier row
\* has the same value (keep='first')
RECURSIVE drop_duplicates(_)
drop_duplicates(rows) ==
    IF rows = <<>> THEN <<>>
    ELSE LET init == drop_duplicates(SubSeq(rows, 1, Len(rows) - 1))
             last == rows[Len(rows)]
         IN  IF \E j \in 1..Len(rows) - 1 : rows[j].name = last.name
             THEN init ELSE Append(init, last)

\* the value stored for a brand sheet that has the brand name column
ingest_brand(file) ==
    [columns |-> file.columns, rows |-> drop_duplicates(dropna_name(file.rows))]

\* the brand file_uploader receives a file and the script processes it
UploadBrand(file) ==
    /\ brand_file' = file
    /\ IF file.kind = "unreadable"
       THEN /\ ui' = <<"error_brand_read">>
            /\ UNCHANGED brand_data
       ELSE IF "brand_name" \notin file.columns
       THEN /\ ui' = <<"error_brand_column">>
            /\ UNCHANGED brand_data
       ELSE /\ brand_data' = ingest_brand(file)
            /\ ui' = <<"success_brand_upload">>
    /\ last_action' = "upload_brand"
    /\ UNCHANGED <<product_data, custom_rules, matched_results, processed_data, tool_vars>>

\* the product file_uploader receives a file and the script processes it
UploadProduct(file) ==
    /\ IF file.kind = "unreadable"
       THEN /\ ui' = <<"error_product_read">>
            /\ UNCHANGED product_data
       ELSE IF ~({"keyword", "volume"} \subseteq file.columns)
       THEN /\ ui' = <<"error_product_column">>
            /\ UNCHANGED product_data
       ELSE /\ product_data' = [columns |-> file.columns, rows |-> file.rows]
            /\ ui' = <<"success_product_upload">>
    /\ last_action' = "upload_product"
    /\ UNCHANGED <<brand_file, brand_data, custom_rules, matched_results, processed_data, tool_vars>>

(***************************************************************************)
(* Matching on its own: every stored state the sidebar can build, then the *)
(* run-match button                                                        *)
(***************************************************************************)

\* Bounds of the matching inputs
MaxMatchRows == 2
MaxBrands == 2
MaxRules == 2

MatchKeywords ==
    {<<"s", "p", "a", "c", "e">>,
     <<"a", "c", "e", " ", "p", "r", "o">>,
     <<"A", "c", "e", "-", "P", "r", "o">>,
     <<"p", "r", "o", "_", "a", "c", "e">>}

MatchBrandNames ==
    {<<"A", "c", "e">>, <<"a", "c", "e">>, <<"a", "c", "e", " ", "p", "r", "o">>}

RulePool ==
    {[brand |-> <<"A">>, keywords |-> <<"a", "c", "e">>],
     [brand |-> <<"B">>, keywords |-> <<"P", "r", "o", ",", " ", "A", "C", "E", ",">>]}

MatchProductTables ==
    {[columns |-> {"keyword", "volume"}, rows |-> r] :
        r \in SeqsUpTo([keyword : MatchKeywords, volume : {Num(1)}], MaxMatchRows)}

MatchBrandFiles ==
    {Sheet({"brand_name"}, r) :
        r \in SeqsUpTo([name : {Txt(n) : n \in MatchBrandNames}], MaxBrands)}

InitMatch ==
    /\ product_data \in MatchProductTables
    /\ brand_file \in MatchBrandFiles
    /\ brand_data = ingest_brand(brand_file)
    /\ custom_rules \in SeqsUpTo(RulePool, MaxRules)
    /\ matched_results = None
    /\ processed_data = NotRun
    /\ last_action = "start"
    /\ ui = <<>>
    /\ ToolsIdle

NextMatch == RunMatch

SpecMatch == InitMatch /\ [][NextMatch]_vars

\* term occurs in text at a place where the character before it and the
\* character after it, when there is one, is no letter, digit or underscore
OccursAsWholeWord(term, text) ==
    \E p \in 1..Len(text) :
        /\ p + Len(term) - 1 <= Len(text)
        /\ \A i \in 1..Len(term) : text[p + i - 1] = term[i]
        /\ p > 1 => text[p - 1] \notin WordChars
        /\ p + Len(term) <= Len(text) => text[p + Len(term)] \notin WordChars

\* the (term, brand) entries of the rules: rules in input order, the terms of
\* a rule in input order
RECURSIVE RuleEntries(_)
RuleEntries(rules) ==
    IF rules = <<>> THEN <<>>
    ELSE LET kws == rule_keywords(rules[1].keywords)
         IN  [i \in 1..Len(kws) |-> [term |-> kws[i], brand |-> rules[1].brand]]
             \o RuleEntries(Tail(rules))

Matched == last_action = "run_match" /\ matched_results # None

ManualHit(i) ==
    \E e \in Range(RuleEntries(custom_rules)) :
        OccursAsWholeWord(e.term, lower(product_data.rows[i].keyword))

BrandHit(i) ==
    \E b \in Range(brand_data.rows) :
        OccursAsWholeWord(lower(b.name.s), lower(product_data.rows[i].keyword))

\* C3: a keyword in which a manual term occurs as a whole word is recorded
\* with that term and the brand of a manual rule holding it, whatever the
\* brand list holds.
ManualRulesFirst ==
    Matched =>
        \A i \in 1..Len(matched_results.rows) :
            ManualHit(i) =>
                /\ matched_results.rows[i].word_type = "Branded KWs"
                /\ \E e \in Range(RuleEntries(custom_rules)) :
                      /\ matched_results.rows[i].brand = Txt(e.term)
                      /\ matched_results.rows[i].brand_name = Txt(e.brand)

\* C3 witness: manual term "ace" -> brand A and a brand list entry of the same
\* literal both occur in the keyword; the row is recorded with brand A
ManualRulesFirstWitness ==
    /\ Matched
    /\ \E i \in 1..Len(matched_results.rows) :
          /\ ManualHit(i)
          /\ \E b \in Range(brand_data.rows) :
                /\ lower(b.name.s) = <<"a", "c", "e">>
                /\ OccursAsWholeWord(lower(b.name.s), lower(product_data.rows[i].keyword))
          /\ matched_results.rows[i].brand = Txt(<<"a", "c", "e">>)
          /\ matched_results.rows[i].brand_name = Txt(<<"A">>)

\* C4: a row is 'Branded KWs' only if its recorded term occurs as a whole
\* word in the lower-cased keyword; "space" is never matched by "ace", and
\* "ace pro" is matched when "ace" is a brand or a manual term.
WholeWordOnly ==
    Matched =>
        \A i \in 1..Len(matched_results.rows) :
            LET row == matched_results.rows[i]
                kw == lower(product_data.rows[i].keyword)
            IN  /\ row.word_type \in {"Branded KWs", "Non-Branded KWs"}
                /\ row.word_type = "Branded KWs" =>
                      /\ row.brand.k = "text"
                      /\ OccursAsWholeWord(row.brand.s, kw)
                /\ kw = <<"s", "p", "a", "c", "e">> =>
                      /\ row.word_type = "Non-Branded KWs"
                      /\ row.brand = NoneCell
                      /\ row.brand_name = NoneCell
                /\ (kw = <<"a", "c", "e", " ", "p", "r", "o">> /\ (ManualHit(i) \/ BrandHit(i))) =>
                      row.word_type = "Branded KWs"

\* C4 witness: one run holds "space" unmatched and "ace pro" matched by "ace"
WholeWordOnlyWitness ==
    /\ Matched
    /\ Len(matched_results.rows) = 2
    /\ matched_results.rows[1].keyword = <<"s", "p", "a", "c", "e">>
    /\ matched_results.rows[1].word_type = "Non-Branded KWs"
    /\ matched_results.rows[2].keyword = <<"a", "c", "e", " ", "p", "r", "o">>
    /\ matched_results.rows[2].word_type = "Branded KWs"
    /\ matched_results.rows[2].brand = Txt(<<"a", "c", "e">>)
    /\ custom_rules = <<>>

\* the first entry of entries whose term occurs in kw as a whole word
FirstHit(entries, kw) ==
    CHOOSE i \in 1..Len(entries) :
        /\ OccursAsWholeWord(entries[i].term, kw)
        /\ \A j \in 1..i - 1 : ~OccursAsWholeWord(entries[j].term, kw)

\* the brand the last entry of that term gives
LastBrandOf(entries, term) ==
    entries[CHOOSE i \in 1..Len(entries) :
               /\ entries[i].term = term
               /\ \A j \in i + 1..Len(entries) : entries[j].term # term].brand

BrandEntries ==
    [i \in 1..Len(brand_data.rows) |->
        [term |-> lower(brand_data.rows[i].name.s), brand |-> brand_data.rows[i].name.s]]

\* C10: in the manual pass the first term, in the order rules and their
\* terms were given, that occurs as a whole word is recorded, with the brand
\* of the last rule that gives this term; otherwise the first brand of the
\* brand list that occurs as a whole word is recorded, a shorter one before a
\* longer one when it comes first.
FirstMatchWins ==
    Matched =>
        \A i \in 1..Len(matched_results.rows) :
            LET row == matched_results.rows[i]
                kw == lower(product_data.rows[i].keyword)
                manual == RuleEntries(custom_rules)
            IN  IF ManualHit(i)
                THEN /\ row.brand = Txt(manual[FirstHit(manual, kw)].term)
                     /\ row.brand_name
                          = Txt(LastBrandOf(manual, manual[FirstHit(manual, kw)].term))
                ELSE IF BrandHit(i)
                THEN /\ row.brand = Txt(BrandEntries[FirstHit(BrandEntries, kw)].term)
                     /\ row.brand_name = Txt(BrandEntries[FirstHit(BrandEntries, kw)].brand)
                ELSE row.brand = NoneCell /\ row.brand_name = NoneCell

\* a term given by two rules carries the brand of the later rule
LaterRuleOverwritesWitness ==
    /\ Matched
    /\ Len(brand_data.rows) = 2
    /\ brand_data.rows[1].name.s = <<"a", "c", "e">>
    /\ brand_data.rows[2].name.s = <<"a", "c", "e", " ", "p", "r", "o">>
    /\ Len(custom_rules) = 2
    /\ custom_rules[1].brand = <<"A">>
    /\ custom_rules[2].brand = <<"B">>
    /\ \E i \in 1..Len(matched_results.rows) :
          /\ matched_results.rows[i].brand = Txt(<<"a", "c", "e">>)
          /\ matched_results.rows[i].brand_name = Txt(<<"B">>)

\* C10 witness: brand list ['ace', 'ace pro'] on keyword 'ace pro' records 'ace'
ShorterBrandFirstWitness ==
    /\ Matched
    /\ custom_rules = <<>>
    /\ Len(brand_data.rows) = 2
    /\ brand_data.rows[1].name.s = <<"a", "c", "e">>
    /\ brand_data.rows[2].name.s = <<"a", "c", "e", " ", "p", "r", "o">>
    /\ \E i \in 1..Len(matched_results.rows) :
          /\ matched_results.rows[i].keyword = <<"a", "c", "e", " ", "p", "r", "o">>
          /\ matched_results.rows[i].brand = Txt(<<"a", "c", "e">>)

(***************************************************************************)
(* The sidebar's rule form, and the session as a whole                     *)
(***************************************************************************)

\* Bounds of the session inputs
MaxSessionRows == 1
MaxSessionRules == 2

\* add_rule_form: the rule is stored when both fields are filled in
AddRule(custom_brand, custom_keywords) ==
    /\ Len(custom_rules) < MaxSessionRules
    /\ IF custom_brand # <<>> /\ custom_keywords # <<>>
       THEN /\ custom_rules' = Append(custom_rules,
                                      [brand |-> custom_brand, keywords |-> custom_keywords])
            /\ ui' = <<"success_rule_added">>
       ELSE /\ ui' = <<>>
            /\ UNCHANGED custom_rules
    /\ last_action' = "add_rule"
    /\ UNCHANGED <<product_data, brand_file, brand_data, matched_results, processed_data, tool_vars>>

ClearRulesAndResults ==
    /\ custom_rules # <<>>
    /\ custom_rules' = <<>>
    /\ matched_results' = None
    /\ ui' = <<>>
    /\ last_action' = "clear_rules"
    /\ UNCHANGED <<product_data, brand_file, brand_data, processed_data, tool_vars>>

\* the clear button, shown while there are rules
ClearRules ==
    /\ custom_rules # <<>>
    /\ custom_rules' = <<>>
    /\ ui' = <<>>
    /\ last_action' = "clear_rules"
    /\ UNCHANGED <<product_data, brand_file, brand_data, matched_results, processed_data, tool_vars>>

SessionKeywords ==
    {<<"s", "p", "a", "c", "e">>, <<"a", "c", "e", " ", "p", "r", "o">>}

SessionProductFiles ==
    {Unreadable, Sheet({"keyword"}, <<>>)}
    \cup {Sheet({"keyword", "volume"}, r) :
            r \in SeqsUpTo([keyword : SessionKeywords, volume : {Num(1)}], MaxSessionRows)}

SessionBrandFiles ==
    {Unreadable,
     Sheet({"other"}, <<>>),
     Sheet({"brand_name"}, <<>>),
     Sheet({"brand_name"}, <<[name |-> NaNName]>>),
     Sheet({"brand_name"}, <<[name |-> Txt(<<"A", "c", "e">>)]>>),
     Sheet({"brand_name"}, <<[name |-> Txt(<<"p", "r", "o">>)],
                             [name |-> Txt(<<"A", "c", "e">>)]>>)}

SessionRuleInputs ==
    {[brand |-> <<>>, keywords |-> <<"a", "c", "e">>],
     [brand |-> <<"A">>, keywords |-> <<>>]} \cup RulePool

\* the session state of lines 16-24
Init ==
    /\ product_data = None
    /\ brand_file = None
    /\ brand_data = None
    /\ custom_rules = <<>>
    /\ matched_results = None
    /\ processed_data = NotRun
    /\ last_action = "start"
    /\ ui = <<>>
    /\ ToolsIdle

Next ==
    \/ \E f \in SessionProductFiles : UploadProduct(f)
    \/ \E f \in SessionBrandFiles : UploadBrand(f)
    \/ \E r \in SessionRuleInputs : AddRule(r.brand, r.keywords)
    \/ ClearRules
    \/ RunMatch

Spec == Init /\ [][Next]_vars

Absent(table) == table = None \/ table.rows = <<>>

\* C9: run-match with the keyword table or the brand table absent or empty
\* reports an error, reports no completed match and stores no result table.
MissingInputIsAnError ==
    (last_action = "run_match" /\ (Absent(product_data) \/ Absent(brand_data))) =>
        /\ \E i \in 1..Len(ui) :
              ui[i] \in {"error_upload_first", "error_product_empty", "error_brand_empty"}
        /\ \A i \in 1..Len(ui) : ui[i] # "success_match_done"

\* what a run-match click would store for the tables and rules now held
CurrentMatch == match_brands(product_data, brand_data, custom_rules).value

\* C11: over any sequence of session actions the stored match results change
\* only in a run-match step, and a run-match step with both tables stored
\* sets them to what match_brands yields for the keyword table, the brand
\* table and the rule list held when the button is clicked; uploads, adding
\* a rule and clearing the rules leave the stored results as they were.
ResultsChangeOnlyOnRunMatch ==
    [][/\ last_action' # "run_match" => matched_results' = matched_results
       /\ last_action' = "run_match" =>
             matched_results' =
                IF product_data # None /\ brand_data # None
                THEN CurrentMatch ELSE matched_results]_vars

\* a later sidebar action has left stored results that differ from what the
\* tables and rules now held would yield
StaleResultsWitness ==
    /\ last_action \in {"upload_product", "upload_brand", "add_rule", "clear_rules"}
    /\ matched_results # None
    /\ product_data # None /\ brand_data # None
    /\ CurrentMatch # None
    /\ CurrentMatch.rows # matched_results.rows

(***************************************************************************)
(* Brand file ingestion on its own                                         *)
(***************************************************************************)

\* Bound of the brand sheets
MaxBrandRows == 3

BrandCells ==
    {Txt(<<"A", "c", "e">>), Txt(<<"a", "c", "e">>), Txt(<<"p", "r", "o">>), NaNName}

BrandFiles ==
    {Unreadable, Sheet({"other"}, <<>>)}
    \cup {Sheet({"brand_name"}, r) : r \in SeqsUpTo([name : BrandCells], MaxBrandRows)}

NextBrand == \E f \in BrandFiles : UploadBrand(f)

SpecBrand == Init /\ [][NextBrand]_vars

Ingested ==
    /\ last_action = "upload_brand"
    /\ brand_file.kind = "table"
    /\ "brand_name" \in brand_file.columns

\* the place of the first row of the uploaded sheet that holds name
FirstRowOf(name) ==
    CHOOSE i \in 1..Len(brand_file.rows) :
        /\ brand_file.rows[i].name = name
        /\ \A j \in 1..i - 1 : brand_file.rows[j].name # name

\* C5 as stated: no null name and no two names equal ignoring case
NoCaseInsensitiveDuplicates ==
    Ingested =>
        /\ \A i \in 1..Len(brand_data.rows) : brand_data.rows[i].name.k = "text"
        /\ \A i, j \in 1..Len(brand_data.rows) :
              i # j => lower(brand_data.rows[i].name.s) # lower(brand_data.rows[j].name.s)

\* C5 as amended: no null name and no two identical names; every non-null
\* name of the sheet is kept once, in the order of first occurrence, names
\* that differ only in case being different names.
NoExactDuplicates ==
    Ingested =>
        /\ \A i \in 1..Len(brand_data.rows) : brand_data.rows[i].name.k = "text"
        /\ \A i, j \in 1..Len(brand_data.rows) :
              i # j => brand_data.rows[i].name # brand_data.rows[j].name
        /\ {brand_data.rows[i].name : i \in 1..Len(brand_data.rows)}
             = {brand_file.rows[i].name : i \in 1..Len(brand_file.rows)} \ {NaNName}
        /\ \A i, j \in 1..Len(brand_data.rows) :
              i < j => FirstRowOf(brand_data.rows[i].name) < FirstRowOf(brand_data.rows[j].name)

\* C5 witness: the sheet Ace, ace, Ace is stored as Ace, ace
NoExactDuplicatesWitness ==
    /\ Ingested
    /\ brand_file.rows = <<[name |-> Txt(<<"A", "c", "e">>)],
                           [name |-> Txt(<<"a", "c", "e">>)],
                           [name |-> Txt(<<"A", "c", "e">>)]>>
    /\ brand_data.rows = <<[name |-> Txt(<<"A", "c", "e">>)],
                           [name |-> Txt(<<"a", "c", "e">>)]>>

(***************************************************************************)
(* tab4: ASIN dedup                                                        *)
(***************************************************************************)

\* Bound of the text entered
MaxAsinLen == 5

AsinChars == {"a", "A", "b", " ", ",", ";"}

\* the character class [\n\s,;\t]
Separators == Whitespace \cup {",", ";"}

\* re.split(r'[\n\s,;\t]+', text): the pieces between the runs of separators;
\* a run at the start or at the end leaves an empty piece there
RECURSIVE re_split(_)
re_split(text) ==
    IF \A i \in 1..Len(text) : text[i] \notin Separators THEN <<text>>
    ELSE LET p == CHOOSE i \in 1..Len(text) :
                    text[i] \in Separators /\ \A j \in 1..i - 1 : text[j] \notin Separators
             q == CHOOSE i \in p..Len(text) :
                    /\ \A j \in p..i : text[j] \in Separators
                    /\ i = Len(text) \/ text[i + 1] \notin Separators
         IN  <<SubSeq(text, 1, p - 1)>> \o re_split(SubSeq(text, q + 1, Len(text)))

\* [asin.strip().upper() for asin in asin_list if asin.strip()]
clean_asins(pieces) ==
    LET kept == SelectSeq(pieces, LAMBDA a : strip(a) # <<>>)
    IN  [i \in 1..Len(kept) |-> upper(strip(kept[i]))]

RECURSIVE dict_fromkeys_last(_)
dict_fromkeys_last(list) ==
    IF list = <<>> THEN <<>>
    ELSE IF \E j \in 2..Len(list) : list[j] = list[1]
         THEN dict_fromkeys_last(Tail(list))
         ELSE <<list[1]>> \o dict_fromkeys_last(Tail(list))

\* list(dict.fromkeys(asin_list)): each key once, at its first place
RECURSIVE dict_fromkeys(_)
dict_fromkeys(list) ==
    IF list = <<>> THEN <<>>
    ELSE LET init == dict_fromkeys(SubSeq(list, 1, Len(list) - 1))
             last == list[Len(list)]
         IN  IF \E j \in 1..Len(list) - 1 : list[j] = last THEN init ELSE Append(init, last)

\* ' '.join(results['unique_asins'])
RECURSIVE join_space(_)
join_space(list) ==
    IF list = <<>> THEN <<>>
    ELSE IF Len(list) = 1 THEN list[1]
    ELSE list[1] \o <<" ">> \o join_space(Tail(list))

\* the value the dedup button stores for a non-blank text
dedup(text) ==
    LET asin_list == clean_asins(re_split(strip(text)))
        unique_asins == dict_fromkeys(asin_list)
    IN  [original_count |-> Len(asin_list),
         unique_count |-> Len(unique_asins),
         unique_asins |-> unique_asins]

\* the dedup button
DedupButton ==
    /\ IF strip(asin_input) # <<>>
       THEN /\ asin_results' = dedup(asin_input)
            /\ ui' = <<"success_dedup">>
       ELSE /\ ui' = <<"error_no_asin">>
            /\ UNCHANGED asin_results
    /\ last_action' = "dedup"
    /\ UNCHANGED <<keyword_vars, asin_input, uploaded_zips, tab5, uploaded_files, tab6>>

\* the user copies the displayed result text into the text area
PasteUnique ==
    /\ asin_results # None
    /\ asin_input' = join_space(asin_results.unique_asins)
    /\ ui' = <<>>
    /\ last_action' = "edit_asin_input"
    /\ UNCHANGED <<keyword_vars, asin_results, uploaded_zips, tab5, uploaded_files, tab6>>

InitDedup ==
    /\ product_data = None
    /\ brand_file = None
    /\ brand_data = None
    /\ custom_rules = <<>>
    /\ matched_results = None
    /\ processed_data = NotRun
    /\ last_action = "start"
    /\ ui = <<>>
    /\ asin_input \in SeqsUpTo(AsinChars, MaxAsinLen)
    /\ asin_results = None
    /\ uploaded_zips = <<>>
    /\ tab5 = NotRun
    /\ uploaded_files = <<>>
    /\ tab6 = NotRun

NextDedup == DedupButton \/ PasteUnique

SpecDedup == InitDedup /\ [][NextDedup]_vars

\* the tokens of text: its maximal runs of characters that are no separator,
\* as (first, last) places
TokenSpans(text) ==
    {sp \in (1..Len(text)) \X (1..Len(text)) :
        /\ sp[1] <= sp[2]
        /\ \A i \in sp[1]..sp[2] : text[i] \notin Separators
        /\ sp[1] = 1 \/ text[sp[1] - 1] \in Separators
        /\ sp[2] = Len(text) \/ text[sp[2] + 1] \in Separators}

TokenAt(text, sp) == upper(SubSeq(text, sp[1], sp[2]))

\* the place where token u first starts in text
FirstStart(text, u) ==
    CHOOSE p \in 1..Len(text) :
        /\ \E sp \in TokenSpans(text) : sp[1] = p /\ TokenAt(text, sp) = u
        /\ \A sp \in TokenSpans(text) : TokenAt(text, sp) = u => sp[1] >= p

Deduped == last_action = "dedup" /\ strip(asin_input) # <<>>

\* C6: for a non-blank text the unique list holds every distinct upper-cased
\* token once, in the order of first occurrence; original_count is the
\* number of tokens, unique_count the length of the unique list; deduping
\* the joined unique list gives the same list again.
DedupContract ==
    Deduped =>
        LET u == asin_results.unique_asins
            spans == TokenSpans(asin_input)
        IN  /\ asin_results.original_count = Cardinality(spans)
            /\ asin_results.unique_count = Len(u)
            /\ {u[i] : i \in 1..Len(u)} = {TokenAt(asin_input, sp) : sp \in spans}
            /\ \A i, j \in 1..Len(u) : i # j => u[i] # u[j]
            /\ \A i, j \in 1..Len(u) :
                  i < j => FirstStart(asin_input, u[i]) < FirstStart(asin_input, u[j])
            /\ u # <<>> => dedup(join_space(u)).unique_asins = u
            /\ u # <<>> => dedup(join_space(u)).original_count = Len(u)

\* C6 witness: "a A;b" holds three tokens and gives A, B
DedupWitness ==
    /\ Deduped
    /\ asin_input = <<"a", " ", "A", ";", "b">>
    /\ asin_results = [original_count |-> 3, unique_count |-> 2,
                       unique_asins |-> << <<"A">>, <<"B">> >>]

(***************************************************************************)
(* tab5 and tab6: batch merge                                              *)
(***************************************************************************)

\* Bound of the number of files uploaded at once
MaxFiles == 3

\* a missing value of a merged table
Null == "<NA>"

\* a table read from a file: its columns in order, its rows as functions
Table(columns, rows) == [kind |-> "table", columns |-> columns, rows |-> rows]
NoTable == [kind |-> "unreadable", columns |-> <<>>, rows |-> <<>>]

ends_with(s, suffix) ==
    Len(s) >= Len(suffix) /\ SubSeq(s, Len(s) - Len(suffix) + 1, Len(s)) = suffix

\* name.rsplit('.', 1)[0]
rsplit_dot_first(name) ==
    IF \A i \in 1..Len(name) : name[i] # "." THEN name
    ELSE SubSeq(name, 1,
                (CHOOSE i \in 1..Len(name) :
                    name[i] = "." /\ \A j \in i + 1..Len(name) : name[j] # ".") - 1)

\* df['时间'] = value: an existing column takes the value, a new one goes last
assign_column(df, col, value) ==
    [kind |-> "table",
     columns |-> IF col \in Range(df.columns) THEN df.columns ELSE Append(df.columns, col),
     rows |-> [i \in 1..Len(df.rows) |->
                 [c \in Range(df.columns) \cup {col} |->
                     IF c = col THEN value ELSE df.rows[i][c]]]]

\* df.insert(0, '时间', value), for a df that has no such column
insert_first(df, col, value) ==
    [kind |-> "table",
     columns |-> <<col>> \o df.columns,
     rows |-> [i \in 1..Len(df.rows) |->
                 [c \in Range(df.columns) \cup {col} |->
                     IF c = col THEN value ELSE df.rows[i][c]]]]

RECURSIVE union_columns(_, _)
union_columns(seen, dfs) ==
    IF dfs = <<>> THEN seen
    ELSE union_columns(
            seen \o SelectSeq(dfs[1].columns, LAMBDA c : c \notin Range(seen)),
            Tail(dfs))

RECURSIVE all_rows(_, _)
all_rows(dfs, columns) ==
    IF dfs = <<>> THEN <<>>
    ELSE [i \in 1..Len(dfs[1].rows) |->
            [c \in Range(columns) |->
                IF c \in Range(dfs[1].columns) THEN dfs[1].rows[i][c] ELSE Null]]
         \o all_rows(Tail(dfs), columns)

\* pd.concat(all_data, ignore_index=True)
concat(dfs) ==
    [kind |-> "table",
     columns |-> union_columns(<<>>, dfs),
     rows |-> all_rows(dfs, union_columns(<<>>, dfs))]

Failed(acc, name, msg) ==
    [acc EXCEPT !.error_files = Append(@, name), !.msgs = @ \o msg]

\* f.lower().endswith(('.csv', '.xlsx'))
eligible(entry) ==
    \/ ends_with(lower(entry.name), <<".", "c", "s", "v">>)
    \/ ends_with(lower(entry.name), <<".", "x", "l", "s", "x">>)

zip_step_silent(acc, zip_file) ==
    IF zip_file.kind = "corrupt" THEN Failed(acc, zip_file.name, <<>>)
    ELSE LET file_list == SelectSeq(zip_file.entries, eligible)
         IN  IF file_list = <<>> THEN acc
             ELSE IF file_list[1].content.kind # "table"
                  THEN Failed(acc, zip_file.name, <<>>)
                  ELSE [acc EXCEPT !.all_data =
                            Append(@, assign_column(file_list[1].content, "time",
                                                    rsplit_dot_first(zip_file.name)))]

\* tab5, the body of the loop over the uploaded zip files
zip_step(acc, zip_file) ==
    IF zip_file.kind = "corrupt" THEN Failed(acc, zip_file.name, <<>>)
    ELSE LET file_list == SelectSeq(zip_file.entries, eligible)
         IN  IF file_list = <<>> THEN Failed(acc, zip_file.name, <<>>)
             ELSE IF file_list[1].content.kind # "table"
                  THEN Failed(acc, zip_file.name, <<>>)
                  ELSE [acc EXCEPT !.all_data =
                            Append(@, assign_column(file_list[1].content, "time",
                                                    rsplit_dot_first(zip_file.name)))]

\* tab6, the body of the loop over the uploaded files; insert raises when
\* the table already has a column of that name
file_step(acc, file) ==
    IF file.content.kind # "table" THEN Failed(acc, file.name, <<"error_read">>)
    ELSE IF "time" \in Range(file.content.columns)
    THEN Failed(acc, file.name, <<"error_read">>)
    ELSE [acc EXCEPT !.all_data =
                        Append(@, insert_first(file.content, "time",
                                               rsplit_dot_first(file.name))),
                     !.msgs = Append(@, "success_read")]

RECURSIVE merge_loop(_, _, _)
merge_loop(acc, files, zipped) ==
    IF files = <<>> THEN acc
    ELSE merge_loop(IF zipped THEN zip_step(acc, files[1]) ELSE file_step(acc, files[1]),
                    Tail(files), zipped)

\* what follows the loop: the merged table or the warning, then the failures
merge_report(acc) ==
    [all_data |-> acc.all_data,
     error_files |-> acc.error_files,
     merged_df |-> IF acc.all_data # <<>> THEN concat(acc.all_data) ELSE None,
     msgs |-> acc.msgs
              \o (IF acc.all_data # <<>> THEN <<"success_merged">> ELSE <<"warning_empty">>)
              \o (IF acc.error_files # <<>> THEN <<"error_failed_files">> ELSE <<>>)]

\* one run of a merge tab over the files its uploader holds
merge_tab(files, zipped) ==
    IF files = <<>>
    THEN [all_data |-> <<>>, error_files |-> <<>>, merged_df |-> None,
          msgs |-> <<"info_upload">>]
    ELSE merge_report(
            merge_loop([all_data |-> <<>>, error_files |-> <<>>, msgs |-> <<>>],
                       files, zipped))

Tab5 ==
    /\ tab5' = merge_tab(uploaded_zips, TRUE)
    /\ ui' = tab5'.msgs
    /\ last_action' = "upload_zips"
    /\ UNCHANGED <<keyword_vars, asin_input, asin_results, uploaded_zips, uploaded_files, tab6>>

Tab6 ==
    /\ tab6' = merge_tab(uploaded_files, FALSE)
    /\ ui' = tab6'.msgs
    /\ last_action' = "upload_files"
    /\ UNCHANGED <<keyword_vars, asin_input, asin_results, uploaded_zips, tab5, uploaded_files>>

T1 == Table(<<"a", "b">>, <<[a |-> "x", b |-> "y"]>>)
T2 == Table(<<"b", "c">>, <<[b |-> "y", c |-> "z"], [b |-> "x", c |-> "z"]>>)
T3 == Table(<<"time", "a">>, <<[time |-> "old", a |-> "x"]>>)

Entry(name, content) == [name |-> name, content |-> content]

ReadmeTxt == <<"r", ".", "t", "x", "t">>
DCsv == <<"D", ".", "C", "S", "V">>
EXlsx == <<"e", ".", "x", "l", "s", "x">>

ZipNames == {<<"j", "a", "n", ".", "z", "i", "p">>,
             <<"q", "1", ".", "v", "2", ".", "z", "i", "p">>}
ZipContents ==
    {[kind |-> "corrupt", entries |-> <<>>],
     [kind |-> "zip", entries |-> <<Entry(ReadmeTxt, NoTable)>>],
     [kind |-> "zip", entries |-> <<Entry(ReadmeTxt, NoTable), Entry(DCsv, T1), Entry(EXlsx, T2)>>],
     [kind |-> "zip", entries |-> <<Entry(EXlsx, T2), Entry(DCsv, T1)>>],
     [kind |-> "zip", entries |-> <<Entry(EXlsx, T3)>>],
     [kind |-> "zip", entries |-> <<Entry(DCsv, NoTable)>>]}
ZipFiles ==
    {[name |-> n, kind |-> c.kind, entries |-> c.entries] : n \in ZipNames, c \in ZipContents}

FileNames == {<<"j", "a", "n", ".", "c", "s", "v">>,
              <<"q", "1", ".", "v", "2", ".", "x", "l", "s", "x">>}
PlainFiles == [name : FileNames, content : {NoTable, T1, T2, T3}]

InitMerge ==
    /\ product_data = None
    /\ brand_file = None
    /\ brand_data = None
    /\ custom_rules = <<>>
    /\ matched_results = None
    /\ processed_data = NotRun
    /\ last_action = "start"
    /\ ui = <<>>
    /\ asin_input = <<>>
    /\ asin_results = None
    /\ \/ uploaded_zips \in SeqsUpTo(ZipFiles, MaxFiles) /\ uploaded_files = <<>>
       \/ uploaded_zips = <<>> /\ uploaded_files \in SeqsUpTo(PlainFiles, MaxFiles)
    /\ tab5 = NotRun
    /\ tab6 = NotRun

NextMerge == Tab5 \/ Tab6

SpecMerge == InitMerge /\ [][NextMerge]_vars

\* the run of a merge tab that has happened, with the files it was given
MergeRuns ==
    (IF tab5 # NotRun /\ uploaded_zips # <<>>
     THEN {[zipped |-> TRUE, files |-> uploaded_zips, out |-> tab5]} ELSE {})
    \cup
    (IF tab6 # NotRun /\ uploaded_files # <<>>
     THEN {[zipped |-> FALSE, files |-> uploaded_files, out |-> tab6]} ELSE {})

\* the table a file yields when it can be read: for a zip file the first
\* entry named .csv or .xlsx of an archive that opens
SourceOf(zipped, file) ==
    IF ~zipped THEN file.content
    ELSE IF file.kind = "corrupt" THEN NoTable
    ELSE IF \A i \in 1..Len(file.entries) : ~eligible(file.entries[i]) THEN NoTable
    ELSE file.entries[CHOOSE i \in 1..Len(file.entries) :
                        /\ eligible(file.entries[i])
                        /\ \A j \in 1..i - 1 : ~eligible(file.entries[j])].content

ReadOk(zipped, file) == SourceOf(zipped, file).kind = "table"

\* the name of a file without its extension
LabelOf(file) ==
    LET dots == {i \in 1..Len(file.name) : file.name[i] = "."}
    IN  IF dots = {} THEN file.name
        ELSE SubSeq(file.name, 1, (CHOOSE i \in dots : \A j \in dots : j <= i) - 1)

\* the rows the readable files of a run give, file by file, each with the
\* label of its file in the provenance column and Null where it has no column
RECURSIVE ExpectedRows(_, _, _)
ExpectedRows(zipped, files, columns) ==
    IF files = <<>> THEN <<>>
    ELSE LET src == SourceOf(zipped, files[1])
             mine == IF src.kind = "table"
                     THEN [i \in 1..Len(src.rows) |->
                            [c \in columns |->
                                IF c = "time" THEN LabelOf(files[1])
                                ELSE IF c \in Range(src.columns) THEN src.rows[i][c]
                                ELSE Null]]
                     ELSE <<>>
         IN  mine \o ExpectedRows(zipped, Tail(files), columns)

ExpectedColumns(zipped, files) ==
    {"time"} \cup UNION {Range(SourceOf(zipped, files[i]).columns) :
                            i \in {j \in 1..Len(files) : ReadOk(zipped, files[j])}}

\* C7: in both merge variants the merged columns are the provenance column
\* and the columns of every table that was read; every row carries the label
\* of its own file and Null in the columns its table lacks; rows come table
\* by table in upload order, each table's rows in their own order.
MergeIsUnion ==
    \A run \in MergeRuns :
        (\E i \in 1..Len(run.files) : ReadOk(run.zipped, run.files[i])) =>
            /\ run.out.merged_df # None
            /\ Range(run.out.merged_df.columns) = ExpectedColumns(run.zipped, run.files)
            /\ run.out.merged_df.rows
                 = ExpectedRows(run.zipped, run.files, ExpectedColumns(run.zipped, run.files))

\* the places of files where pred holds, as the sequence of their items
RECURSIVE Picked(_, _, _)
Picked(files, ok, i) ==
    IF i > Len(files) THEN <<>>
    ELSE (IF i \in ok THEN <<files[i]>> ELSE <<>>) \o Picked(files, ok, i + 1)

\* C8: every uploaded file is either one of the tables merged or one of the
\* names reported as failed, never both and never neither; a file that cannot
\* be read is among the failed and the files after it are still processed;
\* with no table at all the run ends with the empty-result warning and the
\* list of failures.
EveryFileAccounted ==
    \A run \in MergeRuns :
        LET n == Len(run.files)
            out == run.out
        IN  /\ \E ok \in SUBSET (1..n) :
                  /\ \A i \in 1..n : ~ReadOk(run.zipped, run.files[i]) => i \notin ok
                  /\ Len(out.all_data) = Cardinality(ok)
                  /\ \A k \in 1..Len(out.all_data) :
                        /\ out.all_data[k].rows # <<>> =>
                              out.all_data[k].rows[1]["time"]
                                = LabelOf(Picked(run.files, ok, 1)[k])
                        /\ Range(out.all_data[k].columns)
                              = {"time"} \cup
                                Range(SourceOf(run.zipped, Picked(run.files, ok, 1)[k]).columns)
                  /\ out.error_files
                        = [k \in 1..n - Cardinality(ok) |->
                              Picked(run.files, (1..n) \ ok, 1)[k].name]
            /\ out.all_data = <<>> =>
                  /\ out.merged_df = None
                  /\ \E i \in 1..Len(out.msgs) : out.msgs[i] = "warning_empty"
                  /\ out.msgs[Len(out.msgs)] = "error_failed_files"
            /\ out.all_data # <<>> =>
                  /\ out.merged_df # None
                  /\ Len(out.merged_df.rows)
                        = SeqSum([k \in 1..Len(out.all_data) |-> Len(out.all_data[k].rows)])

\* C8 witness: of three zip files the first is corrupt; the other two are
\* merged and exactly one name is reported
EveryFileAccountedWitness ==
    /\ tab5 # NotRun
    /\ Len(uploaded_zips) = 3
    /\ uploaded_zips[1].kind = "corrupt"
    /\ tab5.error_files = <<uploaded_zips[1].name>>
    /\ Len(tab5.all_data) = 2
    /\ tab5.merged_df # None

====
